---- MODULE Spec2Model ----
(***************************************************************************)
(* Model of contract-verification-migrator: the batch orchestrator         *)
(* copy_etherscan_verification (src/src/lib.rs) driving one                *)
(* fetch -> convert -> submit -> poll pipeline per contract address.       *)
(*                                                                         *)
(* The repository holds the pipeline twice: in the crate root              *)
(* src/src/lib.rs and in the module src/src/verification.rs.  The two      *)
(* differ in how a submission response and a status response are           *)
(* classified and in how the request is converted.  The variable impl      *)
(* says which of the two files the pipelines of a run execute; it is       *)
(* chosen in Init and never changes.                                       *)
(*                                                                         *)
(* Text is modelled as a sequence of one-character strings so that         *)
(* contains, starts_with, to_lowercase and equality are computed as the    *)
(* code computes them.                                                     *)
(***************************************************************************)
EXTENDS Integers, Sequences, FiniteSets, TLC

(***************************************************************************)
(* Bounds of the model.                                                    *)
(***************************************************************************)
\* longest list of contract addresses handed to copy_etherscan_verification
MaxAddresses == 2
\* most Metadata records in one contract_source_code response
MaxItems == 1
\* longest compiler version string given to the conversion
MaxVersionLen == 2

(***************************************************************************)
(* Program constants.                                                      *)
(***************************************************************************)
\* verification.rs:172, lib.rs:149
max_verification_status_retries == 10
\* verification.rs:173, lib.rs:150 (seconds)
interval == 10
\* exit status of a Rust process whose main thread panicked
PanicExitCode == 101

(***************************************************************************)
(* Text helpers (std::string::String).                                     *)
(***************************************************************************)
\* the lower-case letter of every upper-case ASCII letter
LowerOf ==
    [A |-> "a", B |-> "b", C |-> "c", D |-> "d", E |-> "e", F |-> "f", G |-> "g",
     H |-> "h", I |-> "i", J |-> "j", K |-> "k", L |-> "l", M |-> "m", N |-> "n",
     O |-> "o", P |-> "p", Q |-> "q", R |-> "r", S |-> "s", T |-> "t", U |-> "u",
     V |-> "v", W |-> "w", X |-> "x", Y |-> "y", Z |-> "z"]
HexDigits == <<"0","1","2","3","4","5","6","7","8","9","a","b","c","d","e","f">>
HexChars  == {HexDigits[k] : k \in 1..16}

\* char::to_lowercase on the ASCII range
ToLowerChar(c) == IF c \in DOMAIN LowerOf THEN LowerOf[c] ELSE c

\* str::to_lowercase
to_lowercase(s) == [k \in 1..Len(s) |-> ToLowerChar(s[k])]

\* str::contains(&str): pat occurs as a contiguous substring of s
contains(s, pat) ==
    \E k \in 0..(Len(s) - Len(pat)) :
        \A j \in 1..Len(pat) : s[k + j] = pat[j]

\* str::starts_with(char)
starts_with(s, c) == Len(s) > 0 /\ s[1] = c

\* String::insert(0, c)
insert0(s, c) == <<c>> \o s

\* a hex digit in either case
IsHexChar(c) == ToLowerChar(c) \in HexChars

\* u64::to_string / i64::to_string for non-negative values
RECURSIVE to_string(_)
to_string(n) ==
    LET d == <<"0","1","2","3","4","5","6","7","8","9">>[(n % 10) + 1]
    IN  IF n < 10 THEN <<d>> ELSE to_string(n \div 10) \o <<d>>

\* hex::encode: two lower-case hex digits per byte
RECURSIVE hex_encode(_)
hex_encode(bytes) ==
    IF bytes = <<>> THEN <<>>
    ELSE <<HexDigits[(bytes[1] \div 16) + 1], HexDigits[(bytes[1] % 16) + 1]>>
         \o hex_encode(Tail(bytes))

(***************************************************************************)
(* Literals of the source.                                                 *)
(***************************************************************************)
STR_OK               == <<"O","K">>
STR_already_verified == <<"a","l","r","e","a","d","y"," ","v","e","r","i","f","i","e","d">>
STR_Unable_to_verify == <<"U","n","a","b","l","e"," ","t","o"," ","v","e","r","i","f","y">>
STR_Already_Verified == <<"A","l","r","e","a","d","y"," ","V","e","r","i","f","i","e","d">>
STR_Pass_Verified    == <<"P","a","s","s"," ","-"," ","V","e","r","i","f","i","e","d">>
STR_0                == <<"0">>
STR_sol              == <<".","s","o","l",":">>

(***************************************************************************)
(* eyre::Result<T>.  ok says Ok/Err; val is the Ok payload; msg is the     *)
(* text of the eyre! / wrap_err message the code builds, or the kind of    *)
(* the library error that `?` passes on unchanged; arg is the text the     *)
(* code formats into the message.                                          *)
(***************************************************************************)
Ok(v)        == [ok |-> TRUE,  val |-> v,  msg |-> "", arg |-> <<>>]
Err(m, a)    == [ok |-> FALSE, val |-> "", msg |-> m,  arg |-> a]
NoResult     == [ok |-> FALSE, val |-> "", msg |-> "unfinished", arg |-> <<>>]

\* enum VerificationResult (verification.rs:15, lib.rs:17)
VerificationResult == {"Success", "AlreadyVerified"}

\* messages of the errors the code builds itself
MSG_non_ok    == "Verification returned non-ok response: "
MSG_unable    == "Unable to verify."
MSG_failed    == "Contract failed to verify."
MSG_timed_out == "Verification timed out"
MSG_status    == "Failed to request verification status"
\* errors of the libraries, passed on by `?`
MSG_url       == "invalid url"
MSG_address   == "invalid address"
\* the EtherscanError of a Client call (contract_source_code at
\* verification.rs:69 / lib.rs:70, submit_contract_verification at
\* verification.rs:149 / lib.rs:135): `?` passes it on as the client made it
MSG_client    == "EtherscanError"

(***************************************************************************)
(* Inputs: contract addresses and explorer urls given on the command line. *)
(***************************************************************************)
GoodAddress == <<"0","x","E","5","9","2","4","2","7","A","0","A","E","c","e","9","2","D","e","3","E","d","e","e","1","F","1","8","E","0","1","5","7","C","0","5","8","6","1","5","6","4">>
BadAddress  == <<"0","x","Z","Z">>
\* the address strings by name; the state keeps the name of an address
AddressTable == [good |-> GoodAddress, bad |-> BadAddress]
Addresses    == DOMAIN AddressTable

\* mutant of ParseAddress: the digits are not checked
ParseAddress_unchecked(s) ==
    LET body == IF Len(s) >= 2 /\ s[1] = "0" /\ s[2] = "x"
                THEN SubSeq(s, 3, Len(s)) ELSE s
    IN  Ok(to_lowercase(body))

\* str::parse::<Address>(): an optional 0x prefix and 40 hex digits
ParseAddress(s) ==
    LET body == IF Len(s) >= 2 /\ s[1] = "0" /\ s[2] = "x"
                THEN SubSeq(s, 3, Len(s)) ELSE s
    IN  IF Len(body) = 40 /\ \A k \in 1..Len(body) : IsHexChar(body[k])
        THEN Ok(to_lowercase(body))
        ELSE Err(MSG_address, s)

GoodUrl == "https://api.etherscan.io/api"
BadUrl  == "not a url"
\* ClientBuilder::with_url / with_api_url: the url must parse
ParseUrl(u) == IF u = GoodUrl THEN Ok(u) ELSE Err(MSG_url, <<>>)

(***************************************************************************)
(* foundry_block_explorers::contract::Metadata and SourceCodeMetadata.     *)
(* A HashMap is a set of <<key, value>> pairs with distinct keys.          *)
(***************************************************************************)
NoSettings == [present |-> FALSE, evm_version |-> <<>>,
               optimizer_enabled |-> FALSE, runs |-> 0]

SourceCode(text) ==
    [kind |-> "SourceCode", text |-> text, language |-> "None",
     settings |-> NoSettings, sources |-> {}]
SourceMetadata(language, settings, sources) ==
    [kind |-> "Metadata", text |-> <<>>, language |-> language,
     settings |-> settings, sources |-> sources]
Sources(sources) ==
    [kind |-> "Sources", text |-> <<>>, language |-> "None",
     settings |-> NoSettings, sources |-> sources]

\* the sequences over S of length at most n
RECURSIVE SeqsUpTo(_, _)
SeqsUpTo(S, n) ==
    IF n = 0 THEN {<<>>}
    ELSE LET shorter == SeqsUpTo(S, n - 1)
         IN  shorter \cup {Append(s, x) : s \in shorter, x \in S}

\* a flattened single-file contract, compiler version without the leading v
MetaSingleFile ==
    [contract_name |-> <<"T","o","k">>, compiler_version |-> <<"0",".","8",".","1","9">>,
     optimization_used |-> 1, runs |-> 200, evm_version |-> <<"p","a","r","i","s">>,
     constructor_arguments |-> <<171, 5>>,
     source_code |-> SourceCode(<<"c","o","n","t","r","a","c","t"," ","T","o","k","{","}">>)]
\* a contract already in standard-json-input shape
MetaStandardJson ==
    [contract_name |-> <<"V","a","u","l","t">>, compiler_version |-> <<"v","0",".","7",".","6">>,
     optimization_used |-> 0, runs |-> 0, evm_version |-> <<"i","s","t","a","n","b","u","l">>,
     constructor_arguments |-> <<>>,
     source_code |-> SourceMetadata("Solidity",
         [present |-> TRUE, evm_version |-> <<"i","s","t","a","n","b","u","l">>,
          optimizer_enabled |-> FALSE, runs |-> 0],
         {<<<<"V","a","u","l","t",".","s","o","l">>, <<"c","o","n","t","r","a","c","t"," ","V","a","u","l","t","{","}">>>>})]
\* a multi-file contract delivered as a bare sources map
MetaSourcesMap ==
    [contract_name |-> <<"P","o","o","l">>, compiler_version |-> <<"0",".","6",".","1","2">>,
     optimization_used |-> 1, runs |-> 1, evm_version |-> <<"D","e","f","a","u","l","t">>,
     constructor_arguments |-> <<0>>,
     source_code |-> Sources({<<<<"P","o","o","l",".","s","o","l">>, <<"c","o","n","t","r","a","c","t"," ","P","o","o","l","{","}">>>>,
                              <<<<"L","i","b",".","s","o","l">>, <<"l","i","b","r","a","r","y"," ","L","i","b","{","}">>>>})]

\* no Metadata: the pipeline holds no converted request
NoMetadata ==
    [contract_name |-> <<>>, compiler_version |-> <<>>, optimization_used |-> 0,
     runs |-> 0, evm_version |-> <<>>, constructor_arguments |-> <<>>,
     source_code |-> SourceCode(<<>>)]
\* Metadata records an explorer answers with in the pipeline runs
PipelineMetadata == {MetaSingleFile, MetaStandardJson}

\* Inputs of the conversion: single-file records over every compiler version
\* string of up to MaxVersionLen characters (with and without the leading
\* v, and the empty string), two contract names, and source texts with the
\* characters JSON escapes; and one record of each other shape.
VersionChars  == {"v", "0"}
ContractNames == {<<"T","o","k">>, <<"V">>}
SourceTexts ==
    {<<>>,
     <<"c","o","n","t","r","a","c","t"," ","T","o","k","{","}">>,
     <<"s"," ","=", " ","\"","a","\\","n","\"",";","\n","}">>}
ConvertMetadata ==
    {[MetaSingleFile EXCEPT !.contract_name = name,
                            !.compiler_version = version,
                            !.source_code = SourceCode(text)] :
        name \in ContractNames,
        version \in SeqsUpTo(VersionChars, MaxVersionLen),
        text \in SourceTexts}
    \cup {MetaStandardJson, MetaSourcesMap}

\* Metadata::source_code(): the text of a SourceCode entry
metadata_source_code(metadata) == metadata.source_code.text

\* mutant of json_escape_char: the backslash is written as it is
json_escape_char_backslash_plain(c) ==
    CASE c = "\"" -> <<"\\", "\"">>
      [] c = "\n" -> <<"\\", "n">>
      [] OTHER    -> <<c>>

\* serde_json's writing of one character inside a JSON string
json_escape_char(c) ==
    CASE c = "\"" -> <<"\\", "\"">>
      [] c = "\\" -> <<"\\", "\\">>
      [] c = "\n" -> <<"\\", "n">>
      [] OTHER    -> <<c>>

\* serde_json's writing of a String: the body of the JSON string literal
RECURSIVE json_escape(_)
json_escape(s) ==
    IF s = <<>> THEN <<>> ELSE json_escape_char(Head(s)) \o json_escape(Tail(s))

\* serde_json::to_string(&SourceCodeMetadata).  The enum is untagged: a
\* SourceCode serializes to a JSON string, a Metadata to an object with
\* language, sources and settings, a Sources to the bare map.  The JSON text
\* is modelled by its structure, with every string in it as the body of its
\* JSON string literal.
serde_json_to_string(sc) ==
    LET entries == {<<json_escape(e[1]), json_escape(e[2])>> : e \in sc.sources}
    IN  CASE sc.kind = "SourceCode" ->
                Ok([json |-> "string", text |-> json_escape(sc.text), language |-> "None",
                    settings |-> NoSettings, sources |-> {}])
          [] sc.kind = "Metadata" ->
                Ok([json |-> "object", text |-> <<>>, language |-> sc.language,
                    settings |-> sc.settings, sources |-> entries])
          [] sc.kind = "Sources" ->
                Ok([json |-> "map", text |-> <<>>, language |-> "None",
                    settings |-> NoSettings, sources |-> entries])

(***************************************************************************)
(* convert_metadata_to_verification_request                                *)
(***************************************************************************)
NoRequest == [address |-> <<>>, code_format |-> "", contract_name |-> <<>>,
              compiler_version |-> <<>>, runs |-> <<>>,
              optimization_used |-> <<>>, constructor_arguments |-> <<>>,
              blockscout_constructor_arguments |-> <<>>,
              evm_version |-> <<>>,
              source |-> [json |-> "", text |-> <<>>, language |-> "None",
                          settings |-> NoSettings, sources |-> {}]]

\* the standard-json-input document built for a single-file source
\* (verification.rs:93-112, lib.rs:87-106), keyed by key
SingleFileDocument(key, metadata) ==
    SourceMetadata("Solidity",
        [present |-> TRUE, evm_version |-> metadata.evm_version,
         optimizer_enabled |-> (metadata.optimization_used = 1),
         runs |-> metadata.runs],
        {<<key, metadata_source_code(metadata)>>})

\* verification.rs:119-125: prepend v unless the version starts with v
normalize_compiler_version(v) ==
    IF ~starts_with(v, "v") THEN insert0(v, "v") ELSE v

\* src/src/verification.rs:84-141
convert_metadata_to_verification_request(contract_address, metadata) ==
    LET contract_name == metadata.contract_name \o STR_sol \o metadata.contract_name
        source == IF metadata.source_code.kind = "SourceCode"
                  THEN serde_json_to_string(SingleFileDocument(contract_name, metadata))
                  ELSE serde_json_to_string(metadata.source_code)
        compiler_version == normalize_compiler_version(metadata.compiler_version)
        address == ParseAddress(contract_address)
    IN  IF ~source.ok THEN source
        ELSE IF ~address.ok THEN address
        ELSE Ok([address |-> address.val,
                 code_format |-> "StandardJsonInput",
                 contract_name |-> contract_name,
                 compiler_version |-> compiler_version,
                 runs |-> to_string(metadata.runs),
                 optimization_used |-> to_string(metadata.optimization_used),
                 constructor_arguments |-> hex_encode(metadata.constructor_arguments),
                 blockscout_constructor_arguments |-> hex_encode(metadata.constructor_arguments),
                 evm_version |-> metadata.evm_version,
                 source |-> source.val])

\* src/src/lib.rs:79-127
lib_convert_metadata_to_verification_request(contract_address, metadata) ==
    LET source == IF metadata.source_code.kind = "SourceCode"
                  THEN serde_json_to_string(SingleFileDocument(metadata.contract_name, metadata))
                  ELSE serde_json_to_string(metadata.source_code)
        address == ParseAddress(contract_address)
    IN  IF ~source.ok THEN source
        ELSE IF ~address.ok THEN address
        ELSE Ok([address |-> address.val,
                 code_format |-> "StandardJsonInput",
                 contract_name |-> metadata.contract_name,
                 compiler_version |-> metadata.compiler_version,
                 runs |-> to_string(metadata.runs),
                 optimization_used |-> to_string(metadata.optimization_used),
                 constructor_arguments |-> hex_encode(metadata.constructor_arguments),
                 blockscout_constructor_arguments |-> hex_encode(metadata.constructor_arguments),
                 evm_version |-> metadata.evm_version,
                 source |-> source.val])

(***************************************************************************)
(* Answers of the explorers (the foundry_block_explorers Client calls).    *)
(* ok = FALSE is a transport or decoding error of the call.                *)
(***************************************************************************)
\* Client::contract_source_code: ContractMetadata { items: Vec<Metadata> }

FetchResponsesOver(records) ==
    {[ok |-> FALSE, items |-> <<>>]}
    \cup {[ok |-> TRUE, items |-> items] : items \in SeqsUpTo(records, MaxItems)}
FetchResponses        == FetchResponsesOver(PipelineMetadata)
ConvertFetchResponses == FetchResponsesOver(ConvertMetadata)
\* the answers the source explorer of a run draws from
FetchRepertoire ==
    [full    |-> FetchResponses,
     basic   |-> FetchResponses,
     convert |-> ConvertFetchResponses]

\* Client::submit_contract_verification: Response { message, result }
SubmitResponse(message, result) == [ok |-> TRUE, message |-> message, result |-> result]
SubmitTransportError == [ok |-> FALSE, message |-> <<>>, result |-> <<>>]
SubmitOk             == SubmitResponse(STR_OK, <<"g","u","i","d","7">>)
SubmitAlreadyLower   == SubmitResponse(<<"N","O","T","O","K">>, <<"C","o","n","t","r","a","c","t"," ","s","o","u","r","c","e"," ","c","o","d","e"," ","a","l","r","e","a","d","y"," ","v","e","r","i","f","i","e","d">>)
SubmitAlreadyMixed   == SubmitResponse(<<"N","O","T","O","K">>, <<"S","m","a","r","t","-","c","o","n","t","r","a","c","t"," ","A","l","r","e","a","d","y"," ","V","e","r","i","f","i","e","d">>)
SubmitAlreadyMessage == SubmitResponse(<<"A","l","r","e","a","d","y"," ","V","e","r","i","f","i","e","d">>, <<"N","O","T","O","K">>)
SubmitRejected       == SubmitResponse(<<"N","O","T","O","K">>, <<"I","n","v","a","l","i","d"," ","A","P","I"," ","K","e","y">>)
\* the answers by name; the state keeps the name of an answer
SubmitResponseTable ==
    [transport_error |-> SubmitTransportError,
     ok              |-> SubmitOk,
     already_lower   |-> SubmitAlreadyLower,
     already_mixed   |-> SubmitAlreadyMixed,
     already_message |-> SubmitAlreadyMessage,
     rejected        |-> SubmitRejected,
     none            |-> [ok |-> FALSE, message |-> <<"-">>, result |-> <<"-">>]]
SubmitResponses == DOMAIN SubmitResponseTable \ {"none"}
NoSubmitResponse == "none"

\* Client::check_contract_verification_status: Response { status, result }
StatusResponse(status, result) == [ok |-> TRUE, status |-> status, result |-> result]
StatusTransportError == [ok |-> FALSE, status |-> <<>>, result |-> <<>>]
StatusPending1 == StatusResponse(<<"1">>, <<"P","e","n","d","i","n","g"," ","i","n"," ","q","u","e","u","e">>)
StatusPending0 == StatusResponse(<<"0">>, <<"P","e","n","d","i","n","g"," ","i","n"," ","q","u","e","u","e">>)
StatusPass1    == StatusResponse(<<"1">>, <<"P","a","s","s"," ","-"," ","V","e","r","i","f","i","e","d">>)
StatusPass0    == StatusResponse(<<"0">>, <<"P","a","s","s"," ","-"," ","V","e","r","i","f","i","e","d">>)
StatusAlready1 == StatusResponse(<<"1">>, <<"A","l","r","e","a","d","y"," ","V","e","r","i","f","i","e","d">>)
StatusAlready0 == StatusResponse(<<"0">>, <<"A","l","r","e","a","d","y"," ","V","e","r","i","f","i","e","d">>)
StatusUnable0  == StatusResponse(<<"0">>, <<"F","a","i","l"," ","-"," ","U","n","a","b","l","e"," ","t","o"," ","v","e","r","i","f","y">>)
StatusUnable1  == StatusResponse(<<"1">>, <<"U","n","a","b","l","e"," ","t","o"," ","v","e","r","i","f","y",":"," ","c","o","m","p","i","l","e","r"," ","m","i","s","m","a","t","c","h">>)
\* the answers by name; the state keeps the name of an answer
StatusResponseTable ==
    [transport_error |-> StatusTransportError,
     pending1        |-> StatusPending1,
     pending0        |-> StatusPending0,
     pass1           |-> StatusPass1,
     pass0           |-> StatusPass0,
     already1        |-> StatusAlready1,
     already0        |-> StatusAlready0,
     unable0         |-> StatusUnable0,
     unable1         |-> StatusUnable1,
     none            |-> [ok |-> FALSE, status |-> <<"-">>, result |-> <<"-">>]]
StatusResponses == DOMAIN StatusResponseTable \ {"none"}
\* The status answers the target explorer of a run draws from: every answer
\* when one pipeline is followed through its poll loop, and one answer per
\* way the loop goes on or ends (transport error, pending, success, reported
\* failure) when several pipelines are interleaved.
BasicStatusResponses == {"transport_error", "pending1", "pass1", "unable0"}
StatusRepertoire ==
    [full    |-> StatusResponses,
     basic   |-> BasicStatusResponses,
     convert |-> BasicStatusResponses]
NoStatusResponse == "none"

(***************************************************************************)
(* send_verification_request: classification of the submission response.   *)
(***************************************************************************)
\* VerificationRequestResponse::Submitted(id) (verification.rs:23)
Submitted(submission_id) ==
    [ok |-> TRUE, val |-> "Submitted", msg |-> "", arg |-> submission_id]

\* mutant of send_verification_request: the id is taken from the message
send_verification_request_id_from_message(verification_response) ==
    IF ~verification_response.ok THEN Err(MSG_client, <<>>)
    ELSE IF verification_response.message # STR_OK
    THEN IF contains(to_lowercase(verification_response.result), STR_already_verified)
         THEN Ok("AlreadyVerified")
         ELSE Err(MSG_non_ok, verification_response.result)
    ELSE Submitted(verification_response.message)

\* src/src/verification.rs:143-166
send_verification_request(verification_response) ==
    IF ~verification_response.ok THEN Err(MSG_client, <<>>)
    ELSE IF verification_response.message # STR_OK
    THEN IF contains(to_lowercase(verification_response.result), STR_already_verified)
         THEN Ok("AlreadyVerified")
         ELSE Err(MSG_non_ok, verification_response.result)
    ELSE Submitted(verification_response.result)

\* mutant of lib_send_verification_request: the answer's message is not
\* looked at, every answer counts as a submission
lib_send_verification_request_unchecked(verification_response) ==
    IF ~verification_response.ok THEN Err(MSG_client, <<>>)
    ELSE Submitted(verification_response.result)

\* src/src/lib.rs:129-143 (Ok(id) is written Submitted(id))
lib_send_verification_request(verification_response) ==
    IF ~verification_response.ok THEN Err(MSG_client, <<>>)
    ELSE IF verification_response.message # STR_OK
    THEN Err(MSG_non_ok, verification_response.message)
    ELSE Submitted(verification_response.result)

(***************************************************************************)
(* await_contract_verification: the body of one iteration of the poll      *)
(* loop, from the answer of check_contract_verification_status to either   *)
(* a return value or NoResult (fall through to the sleep).                 *)
(***************************************************************************)
\* mutant of await_contract_verification_iteration: the unable-to-verify
\* rule compares for equality instead of searching the text
await_contract_verification_iteration_unable_exact(resp) ==
    IF ~resp.ok THEN Err(MSG_status, <<>>)
    ELSE IF resp.result = STR_Unable_to_verify THEN Err(MSG_unable, <<>>)
    ELSE IF resp.result = STR_Already_Verified THEN Ok("AlreadyVerified")
    ELSE IF resp.result = STR_Pass_Verified THEN Ok("Success")
    ELSE NoResult

\* src/src/verification.rs:175-190
await_contract_verification_iteration(resp) ==
    IF ~resp.ok THEN Err(MSG_status, <<>>)
    ELSE IF contains(resp.result, STR_Unable_to_verify) THEN Err(MSG_unable, <<>>)
    ELSE IF resp.result = STR_Already_Verified THEN Ok("AlreadyVerified")
    ELSE IF resp.result = STR_Pass_Verified THEN Ok("Success")
    ELSE NoResult

\* mutant of lib_await_contract_verification_iteration: a transport error of
\* the status query is retried after the wait
lib_await_contract_verification_iteration_error_retried(resp) ==
    IF ~resp.ok THEN NoResult
    ELSE IF contains(resp.result, STR_Unable_to_verify) THEN Err(MSG_unable, <<>>)
    ELSE IF resp.result = STR_Already_Verified THEN Ok("AlreadyVerified")
    ELSE IF resp.status = STR_0 THEN Err(MSG_failed, <<>>)
    ELSE IF resp.result = STR_Pass_Verified THEN Ok("Success")
    ELSE NoResult

\* mutant of lib_await_contract_verification_iteration: the success marker
\* is searched in lower case
lib_await_contract_verification_iteration_pass_lowercase(resp) ==
    IF ~resp.ok THEN Err(MSG_status, <<>>)
    ELSE IF contains(resp.result, STR_Unable_to_verify) THEN Err(MSG_unable, <<>>)
    ELSE IF resp.result = STR_Already_Verified THEN Ok("AlreadyVerified")
    ELSE IF resp.status = STR_0 THEN Err(MSG_failed, <<>>)
    ELSE IF resp.result = to_lowercase(STR_Pass_Verified) THEN Ok("Success")
    ELSE NoResult

\* src/src/lib.rs:152-171
lib_await_contract_verification_iteration(resp) ==
    IF ~resp.ok THEN Err(MSG_status, <<>>)
    ELSE IF contains(resp.result, STR_Unable_to_verify) THEN Err(MSG_unable, <<>>)
    ELSE IF resp.result = STR_Already_Verified THEN Ok("AlreadyVerified")
    ELSE IF resp.status = STR_0 THEN Err(MSG_failed, <<>>)
    ELSE IF resp.result = STR_Pass_Verified THEN Ok("Success")
    ELSE NoResult

(***************************************************************************)
(* State.                                                                  *)
(***************************************************************************)
VARIABLES
    impl,               \* "lib" or "verification": the file the pipelines run
    contract_addresses, \* the Vec<String> given to copy_etherscan_verification, by name
    source_url,         \* url of the source explorer
    target_url,         \* url of the target explorer
    batch,              \* "joining" (join_all is pending), "exited" or "panicked"
    pc,                 \* per pipeline: the await it is suspended at
    result,             \* per pipeline: the Result its future completed with
    metadata,           \* per pipeline: the Metadata the request in flight was converted from
    request,            \* per pipeline: the VerifyContract in flight to the target
    id,                 \* per pipeline: the id given to await_contract_verification
    submit_response,    \* per pipeline: name of the answer received to the submission
    status_response,    \* per pipeline: name of resp, the status answer of the current iteration
    repertoire,         \* "full", "basic" or "convert": the answers the explorers draw from
    parses,             \* per pipeline: calls of contract_address.parse()
    fetch_calls,        \* per pipeline: calls of contract_source_code
    submit_calls,       \* per pipeline: calls of submit_contract_verification
    poll_calls,         \* per pipeline: calls of check_contract_verification_status
    polled_ids,         \* per pipeline: the ids passed to those calls
    waits,              \* per pipeline: completed tokio::time::sleep(interval)
    results,            \* the Vec returned by copy_etherscan_verification
    exit_code           \* exit status of the process, -1 while it runs

inputs   == <<impl, contract_addresses, source_url, target_url, repertoire>>
counters == <<parses, fetch_calls, submit_calls, poll_calls, polled_ids, waits>>
vars == <<impl, contract_addresses, source_url, target_url, repertoire, batch, pc, result,
          metadata, request, id, submit_response, status_response, parses, fetch_calls,
          submit_calls, poll_calls, polled_ids, waits, results, exit_code>>

N == Len(contract_addresses)
\* the String at position i of contract_addresses
address_text(i) == AddressTable[contract_addresses[i]]
Pipelines == 1..N

Impls == {"lib", "verification"}
UrlPairs == {<<GoodUrl, GoodUrl>>, <<BadUrl, GoodUrl>>, <<GoodUrl, BadUrl>>}

\* the state when copy_etherscan_verification is called with at most
\* max_addresses addresses against explorers of the given repertoire
InitWith(max_addresses, explorer_repertoire) ==
    /\ impl \in Impls
    /\ contract_addresses \in SeqsUpTo(Addresses, max_addresses)
    /\ \E urls \in UrlPairs : source_url = urls[1] /\ target_url = urls[2]
    /\ repertoire = explorer_repertoire
    /\ batch = "joining"
    /\ pc = [i \in Pipelines |-> "created"]
    /\ result = [i \in Pipelines |-> NoResult]
    /\ metadata = [i \in Pipelines |-> NoMetadata]
    /\ request = [i \in Pipelines |-> NoRequest]
    /\ id = [i \in Pipelines |-> <<>>]
    /\ submit_response = [i \in Pipelines |-> NoSubmitResponse]
    /\ status_response = [i \in Pipelines |-> NoStatusResponse]
    /\ parses = [i \in Pipelines |-> 0]
    /\ fetch_calls = [i \in Pipelines |-> 0]
    /\ submit_calls = [i \in Pipelines |-> 0]
    /\ poll_calls = [i \in Pipelines |-> 0]
    /\ polled_ids = [i \in Pipelines |-> {}]
    /\ waits = [i \in Pipelines |-> 0]
    /\ results = <<>>
    /\ exit_code = -1

\* a batch of up to MaxAddresses concurrent pipelines
Init == InitWith(MaxAddresses, "basic")

\* one pipeline (or none) against every status answer
InitPoller == InitWith(1, "full")

\* one pipeline (or none) given every input of the conversion
InitConvert == InitWith(1, "convert")

(***************************************************************************)
(* The pipeline copy_etherscan_verification_for_contract                   *)
(* (verification.rs:50-82, lib.rs:51-77), one action per stretch of code   *)
(* between two awaits.                                                     *)
(***************************************************************************)
Convert(contract_address, item) ==
    IF impl = "lib"
    THEN lib_convert_metadata_to_verification_request(contract_address, item)
    ELSE convert_metadata_to_verification_request(contract_address, item)

\* calls of contract_address.parse() made inside the conversion: the parse
\* at verification.rs:128 / lib.rs:114 is reached only past the `?` on the
\* serialization of the source
ConvertParses(item) ==
    IF serde_json_to_string(item.source_code).ok THEN 1 ELSE 0

Send(verification_response) ==
    IF impl = "lib"
    THEN lib_send_verification_request(verification_response)
    ELSE send_verification_request(verification_response)

\* mutant of Iteration: an "Already Verified" answer is taken for pending
Iteration_already_is_pending(resp) ==
    IF resp.ok /\ resp.result = STR_Already_Verified THEN NoResult
    ELSE IF impl = "lib"
    THEN lib_await_contract_verification_iteration(resp)
    ELSE await_contract_verification_iteration(resp)

Iteration(resp) ==
    IF impl = "lib"
    THEN lib_await_contract_verification_iteration(resp)
    ELSE await_contract_verification_iteration(resp)

AllStarted == \A j \in Pipelines : pc[j] # "created"

\* mutant of join_all: only the successful outputs are collected
join_all_dropping_errors(outputs) ==
    SelectSeq([k \in 1..Len(outputs) |-> outputs[k]], LAMBDA r : r.ok)

\* futures::future::join_all: the outputs of the futures, in the order of
\* the futures
join_all(outputs) == [k \in 1..Len(outputs) |-> outputs[k]]

\* main.rs:32-35
main_exit_code(rs) == IF \E k \in 1..Len(rs) : ~rs[k].ok THEN 1 ELSE 0

\* The pipeline stays suspended at an await: join_all stays pending.
Suspend == UNCHANGED <<batch, results, exit_code>>

\* The future of pipeline i completes with res; the .then closure of
\* lib.rs:42-45 hands the same result on.  When it was the last future to
\* complete, the same poll of join_all returns the Vec of outputs
\* (lib.rs:48) and main, which has no await left, runs to its end
\* (main.rs:32-35).
Finish(i, res) ==
    /\ pc' = [pc EXCEPT ![i] = "done"]
    /\ result' = [result EXCEPT ![i] = res]
    /\ IF \A j \in Pipelines \ {i} : pc[j] = "done"
       THEN /\ results' = join_all(result')
            /\ exit_code' = main_exit_code(results')
            /\ batch' = "exited"
       ELSE Suspend

\* check_contract_verification_status(id.clone()) is called
QueryStatus(i, submission_id) ==
    /\ poll_calls' = [poll_calls EXCEPT ![i] = @ + 1]
    /\ polled_ids' = [polled_ids EXCEPT ![i] = @ \cup {submission_id}]
    /\ pc' = [pc EXCEPT ![i] = "poll"]
    /\ Suspend

\* First poll of the future: both clients are built, the address is parsed
\* and contract_source_code is called (verification.rs:57-69, lib.rs:58-70).
\* join_all polls the futures in input order.
Start(i) ==
    /\ batch = "joining"
    /\ pc[i] = "created"
    /\ \A j \in 1..(i - 1) : pc[j] # "created"
    /\ LET source_client == ParseUrl(source_url)
           target_client == ParseUrl(target_url)
           address == ParseAddress(address_text(i))
       IN  IF ~source_client.ok
           THEN Finish(i, source_client) /\ UNCHANGED <<parses, fetch_calls>>
           ELSE IF ~target_client.ok
           THEN Finish(i, target_client) /\ UNCHANGED <<parses, fetch_calls>>
           ELSE /\ parses' = [parses EXCEPT ![i] = @ + 1]
                /\ IF ~address.ok
                   THEN Finish(i, address) /\ UNCHANGED fetch_calls
                   ELSE /\ fetch_calls' = [fetch_calls EXCEPT ![i] = @ + 1]
                        /\ pc' = [pc EXCEPT ![i] = "fetch"]
                        /\ UNCHANGED result
                        /\ Suspend
    /\ UNCHANGED <<inputs, metadata, request, id, submit_response, status_response,
                   submit_calls, poll_calls, polled_ids, waits>>

\* .items[0] on an empty Vec panics (verification.rs:70, lib.rs:71).  The
\* futures are polled by join_all inside main's task, so the panic unwinds
\* through join_all and main: every unfinished pipeline is dropped, nothing
\* is returned and the process ends with the panic status.
Panic(i) ==
    /\ batch' = "panicked"
    /\ pc' = [j \in Pipelines |->
                 IF j = i THEN "panicked"
                 ELSE IF pc[j] = "done" THEN "done" ELSE "dropped"]
    /\ exit_code' = PanicExitCode
    /\ UNCHANGED <<result, results>>

\* contract_source_code returns: first item, conversion, submission
\* (verification.rs:69-75, lib.rs:70-75)
FetchReturns(i) ==
    /\ batch = "joining"
    /\ AllStarted
    /\ pc[i] = "fetch"
    /\ \E r \in FetchRepertoire[repertoire] :
         IF ~r.ok
         THEN /\ Finish(i, Err(MSG_client, <<>>))
              /\ UNCHANGED <<metadata, request, parses, submit_calls>>
         ELSE IF Len(r.items) = 0
         THEN /\ Panic(i)
              /\ UNCHANGED <<metadata, request, parses, submit_calls>>
         ELSE LET item == r.items[1]
                  verification_request == Convert(address_text(i), item)
              IN  /\ parses' = [parses EXCEPT ![i] = @ + ConvertParses(item)]
                  /\ IF ~verification_request.ok
                     THEN /\ Finish(i, verification_request)
                          /\ UNCHANGED <<metadata, request, submit_calls>>
                     ELSE /\ metadata' = [metadata EXCEPT ![i] = item]
                          /\ request' = [request EXCEPT ![i] = verification_request.val]
                          /\ submit_calls' = [submit_calls EXCEPT ![i] = @ + 1]
                          /\ pc' = [pc EXCEPT ![i] = "submit"]
                          /\ UNCHANGED result
                          /\ Suspend
    /\ UNCHANGED <<inputs, id, submit_response, status_response, fetch_calls,
                   poll_calls, polled_ids, waits>>

\* submit_contract_verification returns: classification, then either the
\* pipeline ends or the first status query is made
\* (verification.rs:74-81 and 143-176, lib.rs:75-76 and 129-155)
SubmitReturns(i) ==
    /\ batch = "joining"
    /\ AllStarted
    /\ pc[i] = "submit"
    /\ \E r \in SubmitResponses :
         LET verification_response == Send(SubmitResponseTable[r])
         IN  /\ submit_response' = [submit_response EXCEPT ![i] = r]
             /\ metadata' = [metadata EXCEPT ![i] = NoMetadata]
             /\ request' = [request EXCEPT ![i] = NoRequest]
             /\ IF ~verification_response.ok
                THEN /\ Finish(i, verification_response)
                     /\ UNCHANGED <<id, poll_calls, polled_ids>>
                ELSE IF verification_response.val = "AlreadyVerified"
                THEN /\ Finish(i, Ok("AlreadyVerified"))
                     /\ UNCHANGED <<id, poll_calls, polled_ids>>
                ELSE /\ id' = [id EXCEPT ![i] = verification_response.arg]
                     /\ QueryStatus(i, verification_response.arg)
                     /\ UNCHANGED result
    /\ UNCHANGED <<inputs, status_response, parses, fetch_calls,
                   submit_calls, waits>>

\* check_contract_verification_status returns: the rest of the loop body
\* up to the sleep (verification.rs:175-193, lib.rs:152-174)
StatusReturns(i) ==
    /\ batch = "joining"
    /\ AllStarted
    /\ pc[i] = "poll"
    /\ \E r \in StatusRepertoire[repertoire] :
         LET outcome == Iteration(StatusResponseTable[r])
         IN  /\ status_response' = [status_response EXCEPT ![i] = r]
             /\ IF outcome = NoResult
                THEN pc' = [pc EXCEPT ![i] = "sleep"] /\ UNCHANGED result /\ Suspend
                ELSE Finish(i, outcome)
    /\ UNCHANGED <<inputs, metadata, request, id, submit_response, counters>>

\* mutant of loop_continues: the bound is inclusive (0..=max)
loop_continues_inclusive(iterations) == iterations <= max_verification_status_retries

\* `for _ in 0..max_verification_status_retries` (verification.rs:174,
\* lib.rs:151): after `iterations` iterations the loop runs another one
loop_continues(iterations) == iterations < max_verification_status_retries

\* tokio::time::sleep(interval) returns: the iteration and its resp end; the
\* for loop starts its next iteration, or is exhausted
\* (verification.rs:174 and 193-195, lib.rs:151 and 174-176)
SleepReturns(i) ==
    /\ batch = "joining"
    /\ AllStarted
    /\ pc[i] = "sleep"
    /\ waits' = [waits EXCEPT ![i] = @ + 1]
    /\ status_response' = [status_response EXCEPT ![i] = NoStatusResponse]
    /\ IF loop_continues(poll_calls[i])
       THEN QueryStatus(i, id[i]) /\ UNCHANGED result
       ELSE Finish(i, Err(MSG_timed_out, <<>>)) /\ UNCHANGED <<poll_calls, polled_ids>>
    /\ UNCHANGED <<inputs, metadata, request, id, submit_response,
                   parses, fetch_calls, submit_calls>>

(***************************************************************************)
(* The orchestrator copy_etherscan_verification (lib.rs:22-49) and main.    *)
(***************************************************************************)
\* lib.rs:48 and main.rs:32-35 for an empty address list: join_all of no
\* futures returns an empty Vec at once
JoinAllEmpty ==
    /\ batch = "joining"
    /\ N = 0
    /\ results' = join_all(<<>>)
    /\ exit_code' = main_exit_code(results')
    /\ batch' = "exited"
    /\ UNCHANGED <<inputs, pc, result, metadata, request, id, submit_response,
                   status_response, counters>>

Next ==
    \/ \E i \in Pipelines : Start(i)
    \/ \E i \in Pipelines : FetchReturns(i)
    \/ \E i \in Pipelines : SubmitReturns(i)
    \/ \E i \in Pipelines : StatusReturns(i)
    \/ \E i \in Pipelines : SleepReturns(i)
    \/ JoinAllEmpty

\* the batch: every interleaving of up to MaxAddresses pipelines
Spec == Init /\ [][Next]_vars

\* one pipeline followed through every answer of the explorers
SpecPoller == InitPoller /\ [][Next]_vars

\* one pipeline followed through every input of the conversion
SpecConvert == InitConvert /\ [][Next]_vars

\* Every network call and every sleep eventually returns: a step that stays
\* possible is eventually taken.
FairSpec == Spec /\ WF_vars(Next)

(***************************************************************************)
(* Claims.                                                                 *)
(***************************************************************************)
\* copy_etherscan_verification has returned its Vec
Returned == batch = "exited"
UrlsOk   == ParseUrl(source_url).ok /\ ParseUrl(target_url).ok

\* C1: once copy_etherscan_verification has returned, its Vec has exactly one
\* entry per input address and entry i is the Result the pipeline of input
\* address i completed with, whatever the order in which the pipelines
\* completed: nothing is dropped, duplicated or moved.  In particular the
\* entry of an unparsable address is that address's parse error and no other
\* entry is.
C1_ResultsInInputOrder ==
    Returned =>
        /\ Len(results) = N
        /\ \A i \in Pipelines :
             /\ results[i] = result[i]
             /\ UrlsOk =>
                  (results[i] = Err(MSG_address, address_text(i))
                     <=> ~ParseAddress(address_text(i)).ok)

\* C1 witness: the second pipeline (unparsable address) completed before the
\* first one, and the returned Vec still has the first pipeline's Ok result
\* first and the second's error second
C1_Witness ==
    /\ Returned
    /\ contract_addresses = <<"good", "bad">>
    /\ Len(results) = 2
    /\ results[1].ok
    /\ ~results[2].ok

\* the Result a pipeline that has completed must have, computed from its own
\* input and from the answers its own calls received: no other pipeline's
\* state enters
OwnOutcome(i) ==
    LET source_client == ParseUrl(source_url)
        target_client == ParseUrl(target_url)
        address == ParseAddress(address_text(i))
        submitted == Send(SubmitResponseTable[submit_response[i]])
    IN  IF ~source_client.ok THEN source_client
        ELSE IF ~target_client.ok THEN target_client
        ELSE IF ~address.ok THEN address
        ELSE IF submit_response[i] = NoSubmitResponse THEN Err(MSG_client, <<>>)
        ELSE IF ~submitted.ok THEN submitted
        ELSE IF submitted.val = "AlreadyVerified" THEN Ok("AlreadyVerified")
        ELSE IF status_response[i] = NoStatusResponse THEN Err(MSG_timed_out, <<>>)
        ELSE Iteration(StatusResponseTable[status_response[i]])

\* C2 (as claimed): per-contract isolation.  No pipeline is ever stopped by
\* a sibling before it has an outcome, and the outcome of a completed
\* pipeline is the one its own address and its own explorer answers
\* determine, as if it ran alone.
C2_Isolation ==
    \A i \in Pipelines :
        /\ pc[i] # "dropped"
        /\ pc[i] = "done" => result[i] = OwnOutcome(i)

\* C3 (as claimed): a stage failure of one pipeline (here: the source
\* explorer returns no source record) ends only that pipeline with an error
\* result for its address; the batch is never aborted and, once it has
\* returned, reports one outcome or error for every address.
C3_BatchAlwaysCompletes ==
    /\ batch # "panicked"
    /\ \A i \in Pipelines : pc[i] # "panicked"
    /\ Returned => Len(results) = N /\ \A i \in Pipelines : results[i] # NoResult

TimedOut == Err(MSG_timed_out, <<>>)

\* C4: a run of await_contract_verification never issues more than 10 status
\* queries; it ends with "Verification timed out" only after exactly 10
\* queries; and a run in which every answer was pending-shaped (so that its
\* last iteration ended in the sleep and not in a return) has issued
\* exactly 10 queries and ends with "Verification timed out".
C4_AtMostTenQueries ==
    \A i \in Pipelines :
        /\ poll_calls[i] <= 10
        /\ (pc[i] = "done" /\ result[i] = TimedOut) => poll_calls[i] = 10
        /\ (pc[i] = "done" /\ poll_calls[i] > 0
                /\ status_response[i] = NoStatusResponse)
              => (poll_calls[i] = 10 /\ result[i] = TimedOut)

\* C4 witness: a pipeline whose ten queries were all answered pending-shaped
\* has timed out
C4_Witness ==
    \E i \in Pipelines :
        /\ pc[i] = "done"
        /\ result[i] = TimedOut
        /\ poll_calls[i] = 10
        /\ waits[i] = 10

\* C5 (as claimed): with every network call and sleep eventually returning,
\* every pipeline eventually completes with a terminal outcome (an Ok value
\* or an error Result).
C5_EveryPipelineReachesOutcome ==
    <>(\A i \in Pipelines : pc[i] = "done" /\ result[i] # NoResult)

\* the answers pipeline i has in hand
SubmitAnswer(i) == SubmitResponseTable[submit_response[i]]
StatusAnswer(i) == StatusResponseTable[status_response[i]]
SubmitAnswered(i) == submit_response[i] # NoSubmitResponse /\ SubmitAnswer(i).ok
StatusAnswered(i) == status_response[i] # NoStatusResponse /\ StatusAnswer(i).ok

\* text carries the already-verified signal, in any letter case
AlreadyVerifiedSignal(text) == contains(to_lowercase(text), STR_already_verified)

\* C6 (as claimed): a submission answer that is not "OK" and whose message or
\* result text contains "already verified" in any letter case ends the
\* pipeline with Ok(AlreadyVerified), and no status query is made.
C6_AlreadyVerifiedOnSubmission ==
    \A i \in Pipelines :
        (/\ SubmitAnswered(i)
         /\ SubmitAnswer(i).message # STR_OK
         /\ \/ AlreadyVerifiedSignal(SubmitAnswer(i).message)
            \/ AlreadyVerifiedSignal(SubmitAnswer(i).result))
        => (pc[i] = "done" /\ result[i] = Ok("AlreadyVerified") /\ poll_calls[i] = 0)

\* C7: a submission answer that is not "OK" and carries no already-verified
\* signal ends the pipeline with the non-ok error and no status query is made;
\* an "OK" answer makes the answer's result the submission id, and every
\* status query of the pipeline is made with exactly that id.
C7_RejectedOrSubmitted ==
    \A i \in Pipelines :
        /\ (/\ SubmitAnswered(i)
            /\ SubmitAnswer(i).message # STR_OK
            /\ ~AlreadyVerifiedSignal(SubmitAnswer(i).message)
            /\ ~AlreadyVerifiedSignal(SubmitAnswer(i).result))
           => (/\ pc[i] = "done"
               /\ ~result[i].ok
               /\ result[i].msg = MSG_non_ok
               /\ poll_calls[i] = 0
               /\ polled_ids[i] = {})
        /\ (SubmitAnswered(i) /\ SubmitAnswer(i).message = STR_OK)
           => (/\ id[i] = SubmitAnswer(i).result
               /\ poll_calls[i] >= 1
               /\ polled_ids[i] = {SubmitAnswer(i).result})
        /\ ~SubmitAnswered(i) => (poll_calls[i] = 0 /\ polled_ids[i] = {})

\* C7 witness: one pipeline was rejected without a status query while another
\* was submitted and has queried the status of its id three times
C7_Witness ==
    \E i, j \in Pipelines :
        /\ submit_response[i] = "rejected"
        /\ pc[i] = "done"
        /\ ~result[i].ok
        /\ poll_calls[i] = 0
        /\ submit_response[j] = "ok"
        /\ poll_calls[j] = 3
        /\ polled_ids[j] = {SubmitOk.result}

\* C8: a status answer whose result text contains "Unable to verify" ends the
\* poller at once with the error "Unable to verify.": the pipeline is
\* complete, and no wait followed the answer (the waits are one fewer than
\* the queries), at whichever of the attempts 1..10 the answer came.
C8_UnableToVerifyIsFatal ==
    \A i \in Pipelines :
        (StatusAnswered(i) /\ contains(StatusAnswer(i).result, STR_Unable_to_verify))
        => (/\ pc[i] = "done"
            /\ result[i] = Err(MSG_unable, <<>>)
            /\ poll_calls[i] \in 1..10
            /\ waits[i] = poll_calls[i] - 1)

\* C8 witness: the tenth status answer was "Unable to verify: compiler
\* mismatch" and the pipeline ended with the error
C8_Witness ==
    \E i \in Pipelines :
        /\ status_response[i] = "unable1"
        /\ poll_calls[i] = 10
        /\ pc[i] = "done"
        /\ result[i] = Err(MSG_unable, <<>>)

\* C9 (as claimed): a status answer with the failure status "0" whose result
\* text neither contains "Unable to verify" nor equals "Already Verified"
\* ends the poller at once with the error "Contract failed to verify.".
C9_FailureStatusIsFatal ==
    \A i \in Pipelines :
        (/\ StatusAnswered(i)
         /\ StatusAnswer(i).status = STR_0
         /\ ~contains(StatusAnswer(i).result, STR_Unable_to_verify)
         /\ StatusAnswer(i).result # STR_Already_Verified)
        => (pc[i] = "done" /\ result[i] = Err(MSG_failed, <<>>))

\* C10: a status answer whose result text equals "Pass - Verified", to which
\* no earlier rule applies (no "Unable to verify", not "Already Verified",
\* status not "0"), ends the poller at once with Ok(Success) and no wait
\* follows it; when it is the first answer, exactly one query was made.
C10_PassIsSuccess ==
    \A i \in Pipelines :
        (/\ StatusAnswered(i)
         /\ StatusAnswer(i).result = STR_Pass_Verified
         /\ ~contains(StatusAnswer(i).result, STR_Unable_to_verify)
         /\ StatusAnswer(i).result # STR_Already_Verified
         /\ StatusAnswer(i).status # STR_0)
        => (/\ pc[i] = "done"
            /\ result[i] = Ok("Success")
            /\ poll_calls[i] \in 1..10
            /\ waits[i] = poll_calls[i] - 1)

\* C10 witness: the submission was accepted, the first status answer was the
\* success marker, and the pipeline ended with Success after one query and
\* no wait
C10_Witness ==
    \E i \in Pipelines :
        /\ submit_response[i] = "ok"
        /\ status_response[i] = "pass1"
        /\ poll_calls[i] = 1
        /\ waits[i] = 0
        /\ pc[i] = "done"
        /\ result[i] = Ok("Success")

\* C11: a status answer whose result text equals "Already Verified" (and so
\* does not contain "Unable to verify") ends the poller at once with the
\* non-error Ok(AlreadyVerified), whatever its status flag, and neither a
\* wait nor a further query follows it.
C11_AlreadyVerifiedOnPoll ==
    \A i \in Pipelines :
        (/\ StatusAnswered(i)
         /\ StatusAnswer(i).result = STR_Already_Verified
         /\ ~contains(StatusAnswer(i).result, STR_Unable_to_verify))
        => (/\ pc[i] = "done"
            /\ result[i] = Ok("AlreadyVerified")
            /\ poll_calls[i] \in 1..10
            /\ waits[i] = poll_calls[i] - 1)

\* C11 witness: the second status answer was "Already Verified" and the
\* pipeline ended with AlreadyVerified after one wait
C11_Witness ==
    \E i \in Pipelines :
        /\ status_response[i] = "already1"
        /\ poll_calls[i] = 2
        /\ waits[i] = 1
        /\ pc[i] = "done"
        /\ result[i] = Ok("AlreadyVerified")

\* C12: a transport error of a status query, at whichever attempt 1..10, ends
\* the pipeline at once with the wrapped error "Failed to request
\* verification status": it is not taken for a pending answer, and neither a
\* wait nor a further query follows it.
C12_PollTransportErrorIsFatal ==
    \A i \in Pipelines :
        (status_response[i] # NoStatusResponse /\ ~StatusAnswer(i).ok)
        => (/\ pc[i] = "done"
            /\ ~result[i].ok
            /\ result[i] = Err(MSG_status, <<>>)
            /\ poll_calls[i] \in 1..10
            /\ waits[i] = poll_calls[i] - 1)

\* C12 witness: the tenth status query failed in transport, after nine
\* pending answers and nine waits, and the pipeline ended with the error
C12_Witness ==
    \E i \in Pipelines :
        /\ status_response[i] = "transport_error"
        /\ poll_calls[i] = 10
        /\ waits[i] = 9
        /\ pc[i] = "done"
        /\ result[i] = Err(MSG_status, <<>>)

\* pipeline i ended with an error result
Failed(i) == pc[i] = "done" /\ ~result[i].ok
\* ... the error of contract_source_code: no submission was ever answered
FetchFailed(i) ==
    Failed(i) /\ result[i].msg = MSG_client /\ submit_response[i] = NoSubmitResponse
\* ... an error of the submission: a transport error or a rejection
SubmitFailed(i) ==
    /\ Failed(i)
    /\ submit_response[i] # NoSubmitResponse
    /\ ~SubmitAnswer(i).ok \/ SubmitAnswer(i).message # STR_OK

\* C13: within one pipeline the stages run in the order fetch, convert,
\* submit, poll and stop at the first error.  The submission is called at
\* most once and only after the fetch was called and the conversion built
\* the request (its parse of the address ran); the status is queried only
\* after the submission was answered "OK"; a pipeline that failed before the
\* fetch made no call at all, one whose fetch failed made no submission and
\* no status query, and one whose submission failed made no status query.
C13_StagesInOrder ==
    \A i \in Pipelines :
        /\ fetch_calls[i] \in 0..1
        /\ submit_calls[i] \in 0..1
        /\ submit_calls[i] = 1 => (fetch_calls[i] = 1 /\ parses[i] = 2)
        /\ poll_calls[i] >= 1 =>
              (/\ submit_calls[i] = 1
               /\ SubmitAnswered(i)
               /\ SubmitAnswer(i).message = STR_OK)
        /\ (Failed(i) /\ result[i].msg \in {MSG_url, MSG_address}) =>
              (fetch_calls[i] = 0 /\ submit_calls[i] = 0 /\ poll_calls[i] = 0)
        /\ FetchFailed(i) => (submit_calls[i] = 0 /\ poll_calls[i] = 0)
        /\ SubmitFailed(i) => poll_calls[i] = 0

\* C13 witness: one pipeline stopped at a failed fetch without a submission,
\* one stopped at a rejected submission without a status query, after both
\* had fetched and the second had converted and submitted
C13_Witness ==
    \E i, j \in Pipelines :
        /\ FetchFailed(i)
        /\ fetch_calls[i] = 1
        /\ submit_calls[i] = 0
        /\ SubmitFailed(j)
        /\ fetch_calls[j] = 1
        /\ parses[j] = 2
        /\ submit_calls[j] = 1
        /\ poll_calls[j] = 0

\* the stage at which a failed pipeline stopped: the last stage it called
FailedStage(i) ==
    IF poll_calls[i] >= 1 THEN "poll"
    ELSE IF submit_calls[i] = 1 THEN "submit"
    ELSE IF fetch_calls[i] = 1 THEN "fetch"
    ELSE "setup"

\* C14 (as claimed): the error result of a pipeline tells the stage that
\* produced it: two pipelines that ended with the same error failed at the
\* same stage.
C14_ErrorTellsStage ==
    \A i, j \in Pipelines :
        (Failed(i) /\ Failed(j) /\ result[i] = result[j])
        => FailedStage(i) = FailedStage(j)

\* pipeline i has converted its Metadata and the request is in flight
Converted(i) == pc[i] = "submit" /\ request[i] # NoRequest

\* C15 (as claimed): for every compiler version string v given to the
\* conversion, the normalized version begins with v, equals the given
\* string when that already begins with v, normalizing it again changes
\* nothing, and the request's compiler_version is the normalized version.
C15_CompilerVersionNormalized ==
    \A i \in Pipelines :
        Converted(i) =>
            LET version == metadata[i].compiler_version
                normalized == normalize_compiler_version(version)
            IN  /\ starts_with(normalized, "v")
                /\ starts_with(version, "v") => normalized = version
                /\ normalize_compiler_version(normalized) = normalized
                /\ request[i].compiler_version = normalized

\* a JSON parser's reading of the body of a JSON string literal
RECURSIVE json_unescape(_)
json_unescape(s) ==
    IF s = <<>> THEN <<>>
    ELSE IF s[1] = "\\" /\ Len(s) >= 2
    THEN (IF s[2] = "n" THEN <<"\n">> ELSE <<s[2]>>) \o json_unescape(SubSeq(s, 3, Len(s)))
    ELSE <<s[1]>> \o json_unescape(Tail(s))

\* C16: for every single-file Metadata, the source document of the converted
\* request is a standard-json-input object with exactly one sources entry;
\* the entry's key reads as the name in the request's contract_name field
\* and its content reads as the fetched source text, character for
\* character.
C16_SingleFileSourcePreserved ==
    \A i \in Pipelines :
        (Converted(i) /\ metadata[i].source_code.kind = "SourceCode") =>
            LET document == request[i].source
            IN  /\ document.json = "object"
                /\ Cardinality(document.sources) = 1
                /\ \A entry \in document.sources :
                      /\ json_unescape(entry[1]) = request[i].contract_name
                      /\ json_unescape(entry[2]) = metadata_source_code(metadata[i])

\* C16 witness: a single-file source with quotes, a backslash and a line
\* break was converted; the document holds it escaped, under the contract
\* name of the request
C16_Witness ==
    \E i \in Pipelines :
        /\ Converted(i)
        /\ metadata[i].source_code.kind = "SourceCode"
        /\ \E k \in 1..Len(metadata_source_code(metadata[i])) :
              metadata_source_code(metadata[i])[k] = "\\"
        /\ \E entry \in request[i].source.sources :
              /\ entry[2] # metadata_source_code(metadata[i])
              /\ json_unescape(entry[2]) = metadata_source_code(metadata[i])
              /\ json_unescape(entry[1]) = request[i].contract_name

\* C17 (as claimed): once the process has exited, its status is non-zero
\* exactly when the result of at least one address is an error, and zero
\* exactly when every address (of possibly none) reached Success or
\* AlreadyVerified.
C17_ExitStatusIsAggregate ==
    exit_code # -1 =>
        /\ exit_code # 0 <=> \E i \in Pipelines : result[i] # NoResult /\ ~result[i].ok
        /\ exit_code = 0 <=>
              \A i \in Pipelines : result[i].ok /\ result[i].val \in VerificationResult

\* C18 (as claimed): the poller decides on a status answer by the first rule
\* that matches, in the order unable-to-verify, already-verified,
\* status-failure, pass, otherwise pending; so "Pass - Verified" with status
\* "0" ends in the error "Contract failed to verify." and "Already Verified"
\* with status "0" ends in AlreadyVerified.
C18_RulesInFixedOrder ==
    \A i \in Pipelines :
        StatusAnswered(i) =>
            LET resp == StatusAnswer(i)
            IN  IF contains(resp.result, STR_Unable_to_verify)
                THEN pc[i] = "done" /\ result[i] = Err(MSG_unable, <<>>)
                ELSE IF resp.result = STR_Already_Verified
                THEN pc[i] = "done" /\ result[i] = Ok("AlreadyVerified")
                ELSE IF resp.status = STR_0
                THEN pc[i] = "done" /\ result[i] = Err(MSG_failed, <<>>)
                ELSE IF resp.result = STR_Pass_Verified
                THEN pc[i] = "done" /\ result[i] = Ok("Success")
                ELSE pc[i] = "sleep"

\* C19: a pipeline given the malformed address makes no network call: no
\* fetch, no submission and no status query; it parses the address at most
\* once (not at all when a client could not be built), never gets past its
\* first step, and ends with an error.
C19_MalformedAddressFailsEarly ==
    \A i \in Pipelines :
        contract_addresses[i] = "bad" =>
            /\ fetch_calls[i] = 0
            /\ submit_calls[i] = 0
            /\ poll_calls[i] = 0
            /\ parses[i] <= 1
            /\ pc[i] \in {"created", "done"}
            /\ pc[i] = "done" => ~result[i].ok

\* C19 witness: the malformed address was parsed once and its pipeline ended
\* with the parse error, while the pipeline of a well-formed address of the
\* same batch went on to fetch
C19_Witness ==
    \E i, j \in Pipelines :
        /\ contract_addresses[i] = "bad"
        /\ pc[i] = "done"
        /\ parses[i] = 1
        /\ result[i] = Err(MSG_address, BadAddress)
        /\ contract_addresses[j] = "good"
        /\ fetch_calls[j] = 1

\* a status answer that matches none of the terminal rules
PendingShaped(resp) ==
    /\ resp.ok
    /\ ~contains(resp.result, STR_Unable_to_verify)
    /\ resp.result # STR_Already_Verified
    /\ resp.status # STR_0
    /\ resp.result # STR_Pass_Verified

\* C20 (as claimed): the poller waits once after every pending-shaped answer
\* and only then.  While it waits, the answer in hand is pending-shaped, and
\* a pending-shaped answer in hand is being waited on; the completed waits
\* are one fewer than the queries while the loop runs and after it ended on
\* a terminal answer or a transport error; and the pipeline times out only
\* with ten queries made and ten waits completed.
C20_OneWaitPerPendingAnswer ==
    \A i \in Pipelines :
        /\ pc[i] = "sleep" => (StatusAnswered(i) /\ PendingShaped(StatusAnswer(i)))
        /\ (StatusAnswered(i) /\ PendingShaped(StatusAnswer(i))) => pc[i] = "sleep"
        /\ pc[i] \in {"poll", "sleep"} => waits[i] = poll_calls[i] - 1
        /\ (pc[i] = "done" /\ poll_calls[i] >= 1 /\ result[i] # TimedOut)
              => waits[i] = poll_calls[i] - 1
        /\ (pc[i] = "done" /\ result[i] = TimedOut)
              => (waits[i] = 10 /\ poll_calls[i] = 10)
        /\ poll_calls[i] = 0 => waits[i] = 0
====
